---- MODULE Spec2Model ----
(***************************************************************************)
(* A model of roasort: the ordering of ROA prefix-range records, the text  *)
(* and binary decoders, the deduplicating ordered collection and the       *)
(* verification/output driver.                                              *)
(*                                                                          *)
(* A prefix is kept as the sequence of its significant bits (its length is  *)
(* the sequence's length); the network address is that sequence padded with *)
(* zero bits, which is the normalised form the ip library stores.           *)
(***************************************************************************)
EXTENDS Integers, Sequences, FiniteSets, TLC

\* ------------------------------------------------------------------ bounds
\* Longest prefix of the records compared under SpecCmp.
MaxBits == 2
\* Longest prefix of the lines and entries fed to the pipeline under Spec.
PipeBits == 1
\* Longest input (text lines, or address entries of a ROA) under Spec.
MaxLen == 2

\* ------------------------------------------------------- library constants
\* PrefixLength::<Ipv4> and PrefixLength::<Ipv6> accept 0..=32 and 0..=128.
MaxPrefixLength(afi) == IF afi = "Ipv4" THEN 32 ELSE 128

Afis == {"Ipv4", "Ipv6"}

Min(S) == CHOOSE x \in S : \A y \in S : x <= y

\* All bit strings of length n, and of length at most n.
RECURSIVE BitStrings(_)
BitStrings(n) ==
    IF n = 0 THEN {<< >>}
    ELSE {Append(s, b) : s \in BitStrings(n - 1), b \in {0, 1}}

RECURSIVE BitStringsUpTo(_)
BitStringsUpTo(n) ==
    IF n = 0 THEN BitStrings(0) ELSE BitStrings(n) \cup BitStringsUpTo(n - 1)

\* Option<T>: << >> is None, <<x>> is Some(x).
None == << >>
Some(x) == <<x>>
IsSome(o) == Len(o) = 1

\* ---------------------------------------------------------------- MaxLength
ImplicitEqual == [tag |-> "ImplicitEqual", len |-> 0]
ExplicitEqual == [tag |-> "ExplicitEqual", len |-> 0]
Explicit(l) == [tag |-> "Explicit", len |-> l]

\* Ord for the integer types (PrefixLength, usize).
IntCmp(x, y) == IF x < y THEN "Less" ELSE IF x = y THEN "Equal" ELSE "Greater"

\* A variant of MaxLengthCmp that orders the variants as a derived Ord would,
\* ImplicitEqual before ExplicitEqual.
MaxLengthCmpFlat(p, q) ==
    IF p.tag = "Explicit" /\ q.tag = "Explicit" THEN IntCmp(p.len, q.len)
    ELSE IF p.tag = "Explicit" THEN "Greater"
    ELSE IF q.tag = "Explicit" THEN "Less"
    ELSE IF p.tag = q.tag THEN "Equal"
    ELSE IF p.tag = "ImplicitEqual" THEN "Less" ELSE "Greater"

\* impl Ord for MaxLength
MaxLengthCmp(p, q) ==
    IF p.tag \in {"ImplicitEqual", "ExplicitEqual"}
       /\ q.tag \in {"ImplicitEqual", "ExplicitEqual"} THEN "Equal"
    ELSE IF p.tag \in {"ImplicitEqual", "ExplicitEqual"} /\ q.tag = "Explicit"
        THEN "Less"
    ELSE IF p.tag = "Explicit" /\ q.tag \in {"ImplicitEqual", "ExplicitEqual"}
        THEN "Greater"
    ELSE IntCmp(p.len, q.len)

\* impl PartialEq for MaxLength
MaxLengthEq(p, q) == MaxLengthCmp(p, q) = "Equal"

\* ------------------------------------------------------------------ Prefix
\* Prefix::length
PrefixLen(prefix) == Len(prefix)

\* Bit k of the network address: the bits past the prefix length are zero.
AddressBit(prefix, k) == IF k <= Len(prefix) THEN prefix[k] ELSE 0

\* Ord for Address, on the network addresses of two prefixes of one family:
\* the first differing bit decides.
AddressCmp(p, q) ==
    LET n == IF Len(p) >= Len(q) THEN Len(p) ELSE Len(q)
        diff == {k \in 1..n : AddressBit(p, k) # AddressBit(q, k)}
    IN  IF diff = {} THEN "Equal"
        ELSE IF AddressBit(p, Min(diff)) < AddressBit(q, Min(diff)) THEN "Less"
        ELSE "Greater"

\* --------------------------------------------------------------- Result<T>
NoInner == [prefix |-> << >>, max_length |-> ImplicitEqual]
NoRecord == [afi |-> "none", inner |-> NoInner]

Ok(v) == [ok |-> TRUE, val |-> v, err |-> "none"]
ErrInner(e) == [ok |-> FALSE, val |-> NoInner, err |-> e]
ErrRecord(e) == [ok |-> FALSE, val |-> NoRecord, err |-> e]

\* ----------------------------------------------------- InnerRoaPrefixRange
\* A variant of New without the range check.
NewNoCheck(prefix, max_length) ==
    IF IsSome(max_length)
    THEN IF max_length[1] = PrefixLen(prefix)
         THEN Ok([prefix |-> prefix, max_length |-> ExplicitEqual])
         ELSE Ok([prefix |-> prefix, max_length |-> Explicit(max_length[1])])
    ELSE Ok([prefix |-> prefix, max_length |-> ImplicitEqual])

\* A variant of New that normalises an equal max length to ImplicitEqual.
NewEqualAsImplicit(prefix, max_length) ==
    IF IsSome(max_length)
    THEN CASE IntCmp(max_length[1], PrefixLen(prefix)) = "Less" ->
                ErrInner("max_length less than prefix length")
           [] IntCmp(max_length[1], PrefixLen(prefix)) = "Equal" ->
                Ok([prefix |-> prefix, max_length |-> ImplicitEqual])
           [] OTHER ->
                Ok([prefix |-> prefix, max_length |-> Explicit(max_length[1])])
    ELSE Ok([prefix |-> prefix, max_length |-> ImplicitEqual])

\* InnerRoaPrefixRange::new
New(prefix, max_length) ==
    IF IsSome(max_length)
    THEN CASE IntCmp(max_length[1], PrefixLen(prefix)) = "Less" ->
                ErrInner("max_length less than prefix length")
           [] IntCmp(max_length[1], PrefixLen(prefix)) = "Equal" ->
                Ok([prefix |-> prefix, max_length |-> ExplicitEqual])
           [] OTHER ->
                Ok([prefix |-> prefix, max_length |-> Explicit(max_length[1])])
    ELSE Ok([prefix |-> prefix, max_length |-> ImplicitEqual])

\* A variant of InnerCmp that compares the prefix length before the address.
InnerCmpLengthFirst(self, other) ==
    CASE IntCmp(PrefixLen(self.prefix), PrefixLen(other.prefix)) = "Equal" ->
            (CASE AddressCmp(self.prefix, other.prefix) = "Equal" ->
                    MaxLengthCmp(self.max_length, other.max_length)
               [] OTHER -> AddressCmp(self.prefix, other.prefix))
      [] OTHER -> IntCmp(PrefixLen(self.prefix), PrefixLen(other.prefix))

\* impl Ord for InnerRoaPrefixRange
InnerCmp(self, other) ==
    CASE AddressCmp(self.prefix, other.prefix) = "Equal" ->
            (CASE IntCmp(PrefixLen(self.prefix), PrefixLen(other.prefix)) = "Equal" ->
                    MaxLengthCmp(self.max_length, other.max_length)
               [] OTHER -> IntCmp(PrefixLen(self.prefix), PrefixLen(other.prefix)))
      [] OTHER -> AddressCmp(self.prefix, other.prefix)

\* #[derive(PartialEq)] for InnerRoaPrefixRange: field by field, the prefix
\* by its address and length, the max length by MaxLength's own eq.
InnerEq(self, other) ==
    /\ self.prefix = other.prefix
    /\ MaxLengthEq(self.max_length, other.max_length)

\* ---------------------------------------------------------- RoaPrefixRange
Ipv4(inner) == [afi |-> "Ipv4", inner |-> inner]
Ipv6(inner) == [afi |-> "Ipv6", inner |-> inner]
Wrap(afi, inner) == IF afi = "Ipv4" THEN Ipv4(inner) ELSE Ipv6(inner)

\* RoaPrefixRange::has_explicit_equal_max_length
has_explicit_equal_max_length(self) ==
    self.inner.max_length.tag = "ExplicitEqual"

\* A variant of RoaCmp that does not look at the family.
RoaCmpNoFamily(self, other) == InnerCmp(self.inner, other.inner)

\* impl Ord for RoaPrefixRange
RoaCmp(self, other) ==
    CASE self.afi = "Ipv4" /\ other.afi = "Ipv4" -> InnerCmp(self.inner, other.inner)
      [] self.afi = "Ipv4" /\ other.afi = "Ipv6" -> "Less"
      [] self.afi = "Ipv6" /\ other.afi = "Ipv4" -> "Greater"
      [] OTHER -> InnerCmp(self.inner, other.inner)

\* #[derive(PartialEq)] for RoaPrefixRange: same variant, equal payloads.
RoaEq(self, other) ==
    /\ self.afi = other.afi
    /\ InnerEq(self.inner, other.inner)

\* A variant of Render that never writes the max length.
RenderBare(self) ==
    [afi |-> self.afi, prefix |-> self.inner.prefix, max_length |-> None]

\* A variant of Render that writes the max length whenever the record was
\* given one.
RenderGiven(self) ==
    [afi |-> self.afi,
     prefix |-> self.inner.prefix,
     max_length |-> IF self.inner.max_length.tag = "Explicit"
                        THEN Some(self.inner.max_length.len)
                    ELSE IF self.inner.max_length.tag = "ExplicitEqual"
                        THEN Some(Len(self.inner.prefix))
                    ELSE None]

\* impl Display for InnerRoaPrefixRange / RoaPrefixRange.  A rendered line
\* has the shape of an input line: family, prefix, optional max length.
Render(self) ==
    [afi |-> self.afi,
     prefix |-> self.inner.prefix,
     max_length |-> IF self.inner.max_length.tag = "Explicit"
                    THEN Some(self.inner.max_length.len)
                    ELSE None]


\* ------------------------------------------------------------ Text Decoder
\* An input line is what its text says: the family of the prefix literal
\* ("none" when the text before the '-' is no prefix), the prefix, and the
\* text after the '-' if there is one: a number, or NotANumber.
NotANumber == -1

\* A variant of FromStr that reads the prefix and nothing after it.
FromStrPrefixOnly(input) ==
    IF input.afi \notin Afis THEN ErrRecord("failed to parse prefix")
    ELSE Ok(Wrap(input.afi, New(input.prefix, None).val))

\* impl FromStr for RoaPrefixRange
FromStr(input) ==
    IF input.afi \notin Afis THEN ErrRecord("failed to parse prefix")
    ELSE IF IsSome(input.max_length) /\ input.max_length[1] = NotANumber
        THEN ErrRecord("invalid digit found in string")
    ELSE IF IsSome(input.max_length)
            /\ input.max_length[1] > MaxPrefixLength(input.afi)
        THEN ErrRecord("failed to parse max_length")
    ELSE LET r == New(input.prefix, input.max_length)
         IN  IF r.ok THEN Ok(Wrap(input.afi, r.val)) ELSE ErrRecord(r.err)

\* ----------------------------------------------------- Canonical Collection
\* An entry of the BTreeMap<RoaPrefixRange, usize>.
Entry(key, idx) == [key |-> key, idx |-> idx]

\* .enumerate().map(|(i, item)| (item, i))
Enumerate(items) == [k \in 1..Len(items) |-> Entry(items[k], k - 1)]

\* The stable sort by key of BTreeMap's FromIterator: an entry goes after
\* every entry whose key is not greater than its own.
InsertSorted(sorted, e) ==
    LET n == Cardinality({k \in 1..Len(sorted) :
                            RoaCmp(sorted[k].key, e.key) # "Greater"})
    IN  SubSeq(sorted, 1, n) \o <<e>> \o SubSeq(sorted, n + 1, Len(sorted))

RECURSIVE SortStable(_)
SortStable(pairs) ==
    IF pairs = << >> THEN << >>
    ELSE InsertSorted(SortStable(SubSeq(pairs, 1, Len(pairs) - 1)),
                      pairs[Len(pairs)])

\* The dedup of the sorted run that builds the map: of adjacent entries with
\* equal keys (==) only the last is kept.
RECURSIVE DedupSorted(_)
DedupSorted(sorted) ==
    IF Len(sorted) <= 1 THEN sorted
    ELSE IF RoaEq(sorted[1].key, sorted[2].key)
         THEN DedupSorted(Tail(sorted))
         ELSE <<sorted[1]>> \o DedupSorted(Tail(sorted))

\* A variant of FromIter that fills the map by one insert per pair: an equal
\* key already present keeps its key and takes the new value.
InsertKeepKey(map, e) ==
    IF \E k \in 1..Len(map) : RoaCmp(map[k].key, e.key) = "Equal"
    THEN [k \in 1..Len(map) |->
            IF RoaCmp(map[k].key, e.key) = "Equal"
            THEN Entry(map[k].key, e.idx) ELSE map[k]]
    ELSE InsertSorted(map, e)

RECURSIVE InsertAll(_)
InsertAll(pairs) ==
    IF pairs = << >> THEN << >>
    ELSE InsertKeepKey(InsertAll(SubSeq(pairs, 1, Len(pairs) - 1)),
                       pairs[Len(pairs)])

FromIterKeepFirstKey(items) == InsertAll(Enumerate(items))

\* A variant of FromIter that keeps of the pairs with equal keys the first.
RECURSIVE DedupKeepFirst(_)
DedupKeepFirst(sorted) ==
    IF Len(sorted) <= 1 THEN sorted
    ELSE IF RoaEq(sorted[1].key, sorted[2].key)
         THEN DedupKeepFirst(<<sorted[1]>> \o Tail(Tail(sorted)))
         ELSE <<sorted[1]>> \o DedupKeepFirst(Tail(sorted))

FromIterKeepFirst(items) == DedupKeepFirst(SortStable(Enumerate(items)))

\* A variant of FromIter that keeps every pair.
FromIterNoDedup(items) == SortStable(Enumerate(items))

\* impl FromIterator<RoaPrefixRange> for RoaPrefixRanges.  The result is the
\* map's contents in iteration (key) order.
FromIter(items) == DedupSorted(SortStable(Enumerate(items)))

\* Collecting an iterator of Results: the items before the first Err, and
\* that Err if there is one.
FirstErr(results) ==
    LET bad == {k \in 1..Len(results) : ~results[k].ok}
    IN  IF bad = {} THEN 0 ELSE Min(bad)

\* A variant of Collected that leaves out the results that are errors and
\* collects the rest.
CollectedSkipErr(results) ==
    LET good == {k \in 1..Len(results) : results[k].ok}
        nth(j) == CHOOSE k \in good : Cardinality({m \in good : m < k}) = j - 1
        items == [j \in 1..Cardinality(good) |-> results[nth(j)].val]
    IN  [ok |-> TRUE, err |-> "none", items |-> items, val |-> FromIter(items)]

Collected(results) ==
    LET e == FirstErr(results)
        n == IF e = 0 THEN Len(results) ELSE e - 1
        items == [k \in 1..n |-> results[k].val]
    IN  [ok |-> e = 0,
         err |-> IF e = 0 THEN "none" ELSE results[e].err,
         items |-> items,
         val |-> IF e = 0 THEN FromIter(items) ELSE << >>]

\* RoaPrefixRanges::from_text
from_text(lines) == Collected([k \in 1..Len(lines) |-> FromStr(lines[k])])


\* ---------------------------------------------------------- Binary Decoder
\* The 2-byte address family tags (RoaIpAddressFamily::address_family).
TagIpv4 == <<0, 1>>
TagIpv6 == <<0, 2>>
\* RoaIpAddressFamily::address_family
address_family(block) ==
    IF block.address_family = TagIpv4 THEN [ok |-> TRUE, afi |-> "Ipv4"]
    ELSE IF block.address_family = TagIpv6 THEN [ok |-> TRUE, afi |-> "Ipv6"]
    ELSE [ok |-> FALSE, afi |-> "none"]

\* RoaIpAddress::address: the bit string is the prefix, when the family
\* holds that many bits.
address(afi, roa_ip_addr) ==
    Len(roa_ip_addr.address) <= MaxPrefixLength(afi)

\* RoaIpAddress::max_length: the integer as a prefix length of the family.
max_length(afi, roa_ip_addr) ==
    IsSome(roa_ip_addr.max_length)
        => roa_ip_addr.max_length[1] \in 0..MaxPrefixLength(afi)

\* The closure of try_from's inner map, for one address of a block.
EntryRecord(block, roa_ip_addr) ==
    LET afi == address_family(block)
    IN  IF ~afi.ok THEN ErrRecord("invalid IP address family indicator")
        ELSE IF ~address(afi.afi, roa_ip_addr)
            THEN ErrRecord("failed to read IP address from bit string")
        ELSE IF ~max_length(afi.afi, roa_ip_addr)
            THEN ErrRecord("failed to construct prefix-length")
        ELSE LET r == New(roa_ip_addr.address, roa_ip_addr.max_length)
             IN  IF r.ok THEN Ok(Wrap(afi.afi, r.val)) ELSE ErrRecord(r.err)

\* flat_map over the blocks in declaration order, each block's addresses in
\* their order.
RECURSIVE FlatMap(_)
FlatMap(blocks) ==
    IF blocks = << >> THEN << >>
    ELSE [k \in 1..Len(blocks[1].addresses) |->
            EntryRecord(blocks[1], blocks[1].addresses[k])]
         \o FlatMap(Tail(blocks))

\* What one address of a block logs when the closure is called for it:
\* RoaIpAddress::address logs as it starts and again once the address is
\* read; under a tag that is no family the closure bails before it.
EntryLog(block, roa_ip_addr) ==
    LET afi == address_family(block)
    IN  IF ~afi.ok THEN << >>
        ELSE IF ~address(afi.afi, roa_ip_addr)
            THEN <<"trying to read IP prefix bits">>
        ELSE <<"trying to read IP prefix bits", "trying to get IP prefix length">>

\* The log lines of the addresses of a block that collect() pulls: those up
\* to the first that gives an Err, which is the last one pulled.
RECURSIVE EntriesLog(_, _)
EntriesLog(block, k) ==
    IF k > Len(block.addresses) THEN << >>
    ELSE EntryLog(block, block.addresses[k])
         \o (IF EntryRecord(block, block.addresses[k]).ok
             THEN EntriesLog(block, k + 1) ELSE << >>)

\* The log lines of the lazy flat_map: address_family() logs when the outer
\* closure is called for a block, which is when collect() has pulled every
\* address of the blocks before it and none gave an Err.
RECURSIVE FlatMapLog(_)
FlatMapLog(blocks) ==
    IF blocks = << >> THEN << >>
    ELSE <<"trying to get address-family">>
         \o EntriesLog(blocks[1], 1)
         \o (IF \A k \in 1..Len(blocks[1].addresses) :
                    EntryRecord(blocks[1], blocks[1].addresses[k]).ok
             THEN FlatMapLog(Tail(blocks)) ELSE << >>)

Failed(e) == [ok |-> FALSE, err |-> e, items |-> << >>, val |-> << >>]

\* A result of the decode with the lines logged on the way to it.
Logged(r, l) ==
    [ok |-> r.ok, err |-> r.err, items |-> r.items, val |-> r.val, log |-> l]

\* impl TryFrom<RoaContentInfo> for RoaPrefixRanges
try_from(value) ==
    LET l1 == <<"checking for id-ct-SignedData content-type">>
        l2 == l1 \o <<"trying to decode content as SignedData">>
        l4 == l2 \o <<"trying to decode econtent as RouteOriginAttestation">>
    IN  IF value.content_type # "id-signedData"
            THEN Logged(Failed("invalid OID for SignedData content"),
                        l1 \o <<"invalid OID for SignedData content">>)
        ELSE IF ~value.signed_data_ok
            THEN Logged(Failed("failed to decode CMS content"), l2)
        ELSE IF value.econtent_type # "id-ct-routeOriginAuthz"
            THEN Logged(Failed("invalid OID for ROA eContent"), l2)
        ELSE IF value.econtent = "absent"
            THEN Logged(Failed("failed to extract eContent bytes"), l4)
        ELSE IF value.econtent = "malformed"
            THEN Logged(Failed("failed to decode eContent"), l4)
        ELSE Logged(Collected(FlatMap(value.ip_addr_blocks)),
                    l4 \o FlatMapLog(value.ip_addr_blocks))

\* RoaPrefixRanges::from_roa
from_roa(bytes) ==
    LET l0 == <<"trying to decode ROA from input bytes">>
    IN  IF ~bytes.der_ok THEN Logged(Failed("failed to decode ContentInfo"), l0)
        ELSE LET r == try_from(bytes) IN Logged(r, l0 \o r.log)


\* ------------------------------------------------------------------ driver
VARIABLES
    input_type,   \* InputType: "Text" or "Roa"
    lines,        \* the lines of a text input
    roa,          \* the ContentInfo of a binary input
    pc,           \* where main is: "input", "iter", "done", "failed"; "cmp", "cmp_done"
    items,        \* the records the decoder handed to the collection
    ranges,       \* RoaPrefixRanges, in iteration order
    i,            \* the enumerate() position of the for_each
    stdout,       \* the lines printed
    ret,          \* main's ret
    errs,         \* the hit counter of tests::read_from_text
    log,          \* the lines the binary decoder logged
    first,        \* the output and result of the run this run's input came from
    cmp_in,       \* three records to compare
    cmp_out       \* the results of comparing them

vars == <<input_type, lines, roa, pc, items, ranges, i, stdout, ret, errs,
          log, first, cmp_in, cmp_out>>

\* A variant of ClosureRet that sets ret from the current entry alone.
ClosureRetReset(r, pos, entry) ==
    IF has_explicit_equal_max_length(entry.key)
        THEN "unnecessarily specified max_length"
    ELSE IF pos # entry.idx THEN "input was mis-ordered"
    ELSE "Ok"

\* The body of main's for_each closure, on ret.
ClosureRet(r, pos, entry) ==
    IF has_explicit_equal_max_length(entry.key)
        THEN "unnecessarily specified max_length"
    ELSE IF pos # entry.idx THEN "input was mis-ordered"
    ELSE r

\* A variant of ClosureErrs that counts an entry once at most.
ClosureErrsOnce(pos, entry) ==
    IF pos # entry.idx \/ has_explicit_equal_max_length(entry.key) THEN 1 ELSE 0

\* The hits the closure of tests::read_from_text adds for one entry.
ClosureErrs(pos, entry) ==
    (IF pos # entry.idx THEN 1 ELSE 0)
    + (IF has_explicit_equal_max_length(entry.key) THEN 1 ELSE 0)

\* ------------------------------------------------------------------ inputs
MaxLengthTexts == {None} \cup {Some(n) : n \in 0..(PipeBits + 1)}

\* Lines that do not decode for a reason other than their range: no prefix,
\* a max length that is no number, a max length past the family's width.
OddLines ==
    {[afi |-> "none", prefix |-> << >>, max_length |-> None],
     [afi |-> "Ipv4", prefix |-> << >>, max_length |-> Some(NotANumber)],
     [afi |-> "Ipv4", prefix |-> << >>, max_length |-> Some(MaxPrefixLength("Ipv4") + 1)],
     [afi |-> "Ipv6", prefix |-> << >>, max_length |-> Some(MaxPrefixLength("Ipv6") + 1)]}

Lines ==
    [afi : Afis, prefix : BitStringsUpTo(PipeBits), max_length : MaxLengthTexts]
    \cup OddLines

\* The w bits of n, most significant first.
Bits(n, w) == [k \in 1..w |-> (n \div (2 ^ (w - k))) % 2]

\* The input of tests::read_from_text: 10.0.0.0/24, 10.0.0.0/24-24,
\* 10.0.0.0/8, 2001:db8:db8::/48, 2001:db8::/32.
TestInput ==
    <<[afi |-> "Ipv4", prefix |-> Bits(10, 8) \o Bits(0, 16), max_length |-> None],
      [afi |-> "Ipv4", prefix |-> Bits(10, 8) \o Bits(0, 16), max_length |-> Some(24)],
      [afi |-> "Ipv4", prefix |-> Bits(10, 8), max_length |-> None],
      [afi |-> "Ipv6", prefix |-> Bits(8193, 16) \o Bits(3512, 16) \o Bits(3512, 16),
       max_length |-> None],
      [afi |-> "Ipv6", prefix |-> Bits(8193, 16) \o Bits(3512, 16), max_length |-> None]>>

\* Its expected output: 10.0.0.0/8, 10.0.0.0/24, 2001:db8::/32, 2001:db8:db8::/48.
TestExpect ==
    <<[afi |-> "Ipv4", prefix |-> Bits(10, 8), max_length |-> None],
      [afi |-> "Ipv4", prefix |-> Bits(10, 8) \o Bits(0, 16), max_length |-> None],
      [afi |-> "Ipv6", prefix |-> Bits(8193, 16) \o Bits(3512, 16), max_length |-> None],
      [afi |-> "Ipv6", prefix |-> Bits(8193, 16) \o Bits(3512, 16) \o Bits(3512, 16),
       max_length |-> None]>>

NoRoa ==
    [der_ok |-> FALSE, content_type |-> "none", signed_data_ok |-> FALSE,
     econtent_type |-> "none", econtent |-> "absent", ip_addr_blocks |-> << >>]

\* The address entries a ROA is written from: each outcome of the
\* constructor, two Ord-equal pairs, and a max length past Ipv4's width.
RoaIpAddresses ==
    {[address |-> << >>, max_length |-> None],
     [address |-> << >>, max_length |-> Some(0)],
     [address |-> << >>, max_length |-> Some(1)],
     [address |-> <<1>>, max_length |-> None],
     [address |-> <<1>>, max_length |-> Some(0)],
     [address |-> <<0>>, max_length |-> Some(1)],
     [address |-> << >>, max_length |-> Some(MaxPrefixLength("Ipv4") + 1)]}

Tags == {TagIpv4, TagIpv6, <<0, 3>>}

ContentTypes == {"id-signedData", "other"}
EContentTypes == {"id-ct-routeOriginAuthz", "other"}

\* A binary input holds what its bytes decode to: nothing past the level
\* that does not decode.  The blocks of one whose eContent decodes are
\* written by WriteBlock and WriteAddress.
RoaEnvelopes ==
    {NoRoa}
    \cup {[der_ok |-> TRUE, content_type |-> ct, signed_data_ok |-> FALSE,
           econtent_type |-> "none", econtent |-> "absent",
           ip_addr_blocks |-> << >>] : ct \in ContentTypes}
    \cup {[der_ok |-> TRUE, content_type |-> ct, signed_data_ok |-> TRUE,
           econtent_type |-> et, econtent |-> e, ip_addr_blocks |-> << >>] :
            ct \in ContentTypes, et \in EContentTypes,
            e \in {"absent", "malformed", "present"}}

\* The number of address entries of a sequence of blocks.
RECURSIVE Addresses(_)
Addresses(blocks) ==
    IF blocks = << >> THEN 0
    ELSE Len(blocks[1].addresses) + Addresses(Tail(blocks))

\* rasn size("1..=2") of ip_addr_blocks: the most blocks a ROA is written
\* with.
MaxBlocks == 2

\* ------------------------------------------------------------ the pipeline
Idle ==
    /\ items = << >>
    /\ ranges = << >>
    /\ i = 0
    /\ stdout = << >>
    /\ ret = "Ok"
    /\ errs = 0
    /\ log = << >>

InitText ==
    /\ input_type = "Text"
    /\ lines \in {<< >>, TestInput}
    /\ roa = NoRoa

InitRoa ==
    /\ input_type = "Roa"
    /\ lines = << >>
    /\ roa \in RoaEnvelopes

Init ==
    /\ InitText \/ InitRoa
    /\ pc = "input"
    /\ Idle
    /\ first = None
    /\ cmp_in = << >>
    /\ cmp_out = << >>

\* The input being written, before main reads it: one more line of text,
\* unless the input is the output of a run.
WriteLine ==
    /\ pc = "input"
    /\ input_type = "Text"
    /\ first = None
    /\ Len(lines) < MaxLen
    /\ \E l \in Lines : lines' = Append(lines, l)
    /\ UNCHANGED <<input_type, roa, pc, items, ranges, i, stdout, ret, errs,
                   log, first, cmp_in, cmp_out>>

\* One more address family block, with its first address or with none:
\* the DER codec reads a SEQUENCE OF of any length, the size constraints of
\* the schema are not part of the encoding rules.
WriteBlock ==
    /\ pc = "input"
    /\ input_type = "Roa"
    /\ roa.econtent = "present"
    /\ Len(roa.ip_addr_blocks) < MaxBlocks
    /\ Addresses(roa.ip_addr_blocks) < MaxLen
    /\ \E t \in Tags, as \in {<< >>} \cup {<<a>> : a \in RoaIpAddresses} :
          roa' = [roa EXCEPT !.ip_addr_blocks =
                    Append(@, [address_family |-> t, addresses |-> as])]
    /\ UNCHANGED <<input_type, lines, pc, items, ranges, i, stdout, ret, errs,
                   log, first, cmp_in, cmp_out>>

\* One more address in the last block.
WriteAddress ==
    /\ pc = "input"
    /\ input_type = "Roa"
    /\ Len(roa.ip_addr_blocks) >= 1
    /\ Addresses(roa.ip_addr_blocks) < MaxLen
    /\ \E a \in RoaIpAddresses :
          roa' = [roa EXCEPT !.ip_addr_blocks[Len(roa.ip_addr_blocks)].addresses =
                    Append(@, a)]
    /\ UNCHANGED <<input_type, lines, pc, items, ranges, i, stdout, ret, errs,
                   log, first, cmp_in, cmp_out>>

\* What main does with the result of InputType::read.
Decode(r) ==
    /\ items' = r.items
    /\ ranges' = r.val
    /\ pc' = IF r.ok THEN "iter" ELSE "failed"
    /\ ret' = IF r.ok THEN ret ELSE r.err
    /\ UNCHANGED <<input_type, lines, roa, i, stdout, errs, first, cmp_in, cmp_out>>

\* InputType::read, Self::Text
ReadText ==
    /\ pc = "input"
    /\ input_type = "Text"
    /\ Decode(from_text(lines))
    /\ log' = log

\* InputType::read, Self::Roa
ReadRoa ==
    /\ pc = "input"
    /\ input_type = "Roa"
    /\ LET r == from_roa(roa)
       IN  Decode(r) /\ log' = <<"reading input">> \o r.log

\* One turn of main's for_each.
ForEach ==
    /\ pc = "iter"
    /\ i < Len(ranges)
    /\ ret' = ClosureRet(ret, i, ranges[i + 1])
    /\ errs' = errs + ClosureErrs(i, ranges[i + 1])
    /\ stdout' = Append(stdout, Render(ranges[i + 1].key))
    /\ i' = i + 1
    /\ UNCHANGED <<input_type, lines, roa, pc, items, ranges, log, first,
                   cmp_in, cmp_out>>

\* main returns ret.
Return ==
    /\ pc = "iter"
    /\ i = Len(ranges)
    /\ pc' = "done"
    /\ UNCHANGED <<input_type, lines, roa, items, ranges, i, stdout, ret, errs,
                   log, first, cmp_in, cmp_out>>

Next == WriteLine \/ WriteBlock \/ WriteAddress \/ ReadText \/ ReadRoa \/ ForEach \/ Return

Spec == Init /\ [][Next]_vars

\* --------------------------------------------------------------- two runs
\* The program is started again with --input-type text on what the run that
\* returned has printed.
FeedBack ==
    /\ pc = "done"
    /\ first = None
    /\ first' = Some([stdout |-> stdout, ret |-> ret])
    /\ input_type' = "Text"
    /\ lines' = stdout
    /\ roa' = NoRoa
    /\ pc' = "input"
    /\ items' = << >>
    /\ ranges' = << >>
    /\ i' = 0
    /\ stdout' = << >>
    /\ ret' = "Ok"
    /\ errs' = 0
    /\ log' = << >>
    /\ UNCHANGED <<cmp_in, cmp_out>>

NextAgain == Next \/ FeedBack

SpecAgain == Init /\ [][NextAgain]_vars

\* ------------------------------------------------------------ comparisons
\* The records the constructor yields for prefixes of at most MaxBits bits.
CmpRecords ==
    {Wrap(t[1], New(t[2], t[3]).val) :
        t \in {u \in Afis \X BitStringsUpTo(MaxBits)
                       \X ({None} \cup {Some(n) : n \in 0..MaxBits}) :
                    New(u[2], u[3]).ok}}

InitCmp ==
    /\ input_type = "Text"
    /\ lines = << >>
    /\ roa = NoRoa
    /\ pc = "cmp"
    /\ Idle
    /\ first = None
    /\ cmp_in \in CmpRecords \X CmpRecords \X CmpRecords
    /\ cmp_out = << >>

\* cmp and == on the three records, as the collection's sort and dedup call
\* them, and the first record printed (to_string) and parsed back.
Compare ==
    /\ pc = "cmp"
    /\ cmp_out' = [ab |-> RoaCmp(cmp_in[1], cmp_in[2]),
                   ba |-> RoaCmp(cmp_in[2], cmp_in[1]),
                   bc |-> RoaCmp(cmp_in[2], cmp_in[3]),
                   ac |-> RoaCmp(cmp_in[1], cmp_in[3]),
                   eq_ab |-> RoaEq(cmp_in[1], cmp_in[2]),
                   ml_ab |-> MaxLengthCmp(cmp_in[1].inner.max_length,
                                          cmp_in[2].inner.max_length),
                   text |-> Render(cmp_in[1]),
                   parsed |-> FromStr(Render(cmp_in[1]))]
    /\ pc' = "cmp_done"
    /\ UNCHANGED <<input_type, lines, roa, items, ranges, i, stdout, ret, errs,
                   log, first, cmp_in>>

NextCmp == Compare

SpecCmp == InitCmp /\ [][NextCmp]_vars


\* ------------------------------------------------------------------ claims
Max(S) == CHOOSE x \in S : \A y \in S : y <= x

\* main read its input and built the collection.
Decoded == pc \in {"iter", "done"}

\* The positions of the decoder's output that are Ord-equal to a key.
Occurrences(key) == {k \in 1..Len(items) : RoaCmp(items[k], key) = "Equal"}

\* The canonical positions whose stored index is not the position, and those
\* whose record has an explicit max length equal to its prefix length.
MisOrdered == {k \in 1..Len(ranges) : ranges[k].idx # k - 1}
Redundant == {k \in 1..Len(ranges) : ranges[k].key.inner.max_length.tag = "ExplicitEqual"}

Rendering(keys) == [k \in 1..Len(keys) |-> Render(keys[k])]

\* C1: the collection built from the decoded records iterates strictly
\* ascending in the total order, and its keys cover exactly the Ord-equality
\* classes of the decoded records.
C1_SortedDedup ==
    Decoded =>
        /\ \A k \in 1..(Len(ranges) - 1) :
              RoaCmp(ranges[k].key, ranges[k + 1].key) = "Less"
        /\ \A k \in 1..Len(items) :
              \E m \in 1..Len(ranges) : RoaCmp(items[k], ranges[m].key) = "Equal"
        /\ \A m \in 1..Len(ranges) : Occurrences(ranges[m].key) # {}

\* An unsorted input with two Ord-equal records has been collected.
C1_Witness ==
    /\ Decoded
    /\ lines = TestInput
    /\ Len(items) = 5
    /\ Len(ranges) = 4
    /\ RoaCmp(items[1], items[3]) = "Greater"

\* C2 as stated: every entry holds the key of the first occurrence of its
\* Ord-class and the position of the last one.
C2_KeepsFirstKey ==
    Decoded =>
        \A m \in 1..Len(ranges) :
            LET occ == Occurrences(ranges[m].key)
            IN  /\ ranges[m].key = items[Min(occ)]
                /\ ranges[m].idx = Max(occ) - 1

\* C2 as amended: every entry holds the key and the position of the last
\* occurrence of its Ord-class; so a class whose last occurrence has an
\* explicit max length equal to its prefix length is flagged by the
\* redundant-max-length diagnostic, also when an earlier occurrence gave no
\* max length, and the run does not end in success.
C2_KeepsLastKey ==
    /\ Decoded =>
          \A m \in 1..Len(ranges) :
              LET occ == Occurrences(ranges[m].key)
              IN  /\ ranges[m].key = items[Max(occ)]
                  /\ ranges[m].idx = Max(occ) - 1
    /\ pc = "done" =>
          \A k \in 1..Len(items) :
              (/\ items[k].inner.max_length.tag = "ExplicitEqual"
               /\ k = Max(Occurrences(items[k])))
                  => (\E m \in Redundant : ranges[m].key = items[k]) /\ ret # "Ok"

\* A prefix given without a max length and then with one equal to its
\* length has been collected and checked.
C2_Witness ==
    /\ pc = "done"
    /\ Len(items) = 2
    /\ RoaCmp(items[1], items[2]) = "Equal"
    /\ items[1].inner.max_length.tag = "ImplicitEqual"
    /\ items[2].inner.max_length.tag = "ExplicitEqual"
    /\ Len(ranges) = 1

\* C3: the per-record checks count one hit for every canonical position whose
\* stored index differs from it and one for every retained record with an
\* explicit max length equal to its prefix length; the input of
\* tests::read_from_text renders as its expected output, with 3 hits.
C3_TestHits ==
    pc = "done" =>
        /\ errs = Cardinality(MisOrdered) + Cardinality(Redundant)
        /\ lines = TestInput => stdout = TestExpect /\ errs = 3

C3_Witness ==
    /\ pc = "done"
    /\ lines = TestInput
    /\ Len(stdout) = 4

\* What has been printed is the rendering of the first i retained records in
\* canonical order, all of them when main returns, and ret is a failure
\* exactly when a checked position was mis-ordered or held a redundant max
\* length.
C4_State ==
    Decoded =>
        /\ stdout = Rendering([k \in 1..i |-> ranges[k].key])
        /\ pc = "done" => i = Len(ranges)
        /\ ret # "Ok" <=> \E k \in 1..i : k \in MisOrdered \/ k \in Redundant

\* C4: after a successful decode every retained record is printed once, in
\* canonical order, whatever diagnostic fired; main returns a failure exactly
\* when some canonical position is mis-ordered or some retained record has a
\* redundant max length; and no turn of the loop sets a failure back to Ok.
C4_EmitsAllFailsIffDiagnostic ==
    /\ [](C4_State)
    /\ [][ret # "Ok" => ret' # "Ok"]_vars

\* A run whose first record fired a diagnostic and whose last did not.
C4_Witness ==
    /\ pc = "done"
    /\ Len(ranges) = 2
    /\ 1 \in MisOrdered \cup Redundant
    /\ 2 \notin MisOrdered \cup Redundant
    /\ Len(stdout) = 2
    /\ ret # "Ok"

\* The decoded records are strictly ascending and none has an explicit max
\* length equal to its prefix length.
Canonical ==
    /\ \A k \in 1..(Len(items) - 1) : RoaCmp(items[k], items[k + 1]) = "Less"
    /\ \A k \in 1..Len(items) : items[k].inner.max_length.tag # "ExplicitEqual"

\* C5: an input that is already canonical, the empty one included, is
\* printed as it is, element for element, no diagnostic fires and main
\* returns Ok.
C5_CanonicalVerbatim ==
    (pc = "done" /\ Canonical) =>
        /\ stdout = Rendering(items)
        /\ input_type = "Text" => stdout = lines
        /\ MisOrdered = {}
        /\ Redundant = {}
        /\ errs = 0
        /\ ret = "Ok"

\* A canonical text input of two lines, one with a max length, was printed.
C5_Witness ==
    /\ pc = "done"
    /\ Canonical
    /\ input_type = "Text"
    /\ Len(lines) = 2
    /\ \E k \in 1..2 : IsSome(lines[k].max_length)
    /\ stdout = lines

\* The (family, prefix, optional max length) of each input element, in input
\* order: the lines of a text input, the addresses of a ROA under the
\* family of their block.
RECURSIVE Flatten(_)
Flatten(blocks) ==
    IF blocks = << >> THEN << >>
    ELSE [k \in 1..Len(blocks[1].addresses) |->
            [afi |-> IF blocks[1].address_family = <<0, 1>> THEN "Ipv4"
                     ELSE IF blocks[1].address_family = <<0, 2>> THEN "Ipv6"
                     ELSE "none",
             prefix |-> blocks[1].addresses[k].address,
             max_length |-> blocks[1].addresses[k].max_length]]
         \o Flatten(Tail(blocks))

Sources == IF input_type = "Text" THEN lines ELSE Flatten(roa.ip_addr_blocks)

\* The element names a family and, if it gives a max length, one that is a
\* prefix length of that family.
WellFormed(src) ==
    /\ src.afi \in {"Ipv4", "Ipv6"}
    /\ Len(src.max_length) = 1 =>
          /\ src.max_length[1] >= 0
          /\ src.max_length[1] <= (IF src.afi = "Ipv4" THEN 32 ELSE 128)

\* main has read its input.
HasRead == pc \in {"iter", "done", "failed"}

\* C6: on both paths and for both families, record k is built from input
\* element k: its prefix unchanged, ImplicitEqual when no max length is
\* given, ExplicitEqual when it equals the prefix length, Explicit(max
\* length) when it is greater; and such an element never fails to construct.
C6_Constructor ==
    (HasRead /\ (input_type = "Roa" => roa.der_ok /\ roa.econtent = "present")) =>
        /\ Len(items) <= Len(Sources)
        /\ \A k \in 1..Len(items) :
              /\ items[k].afi = Sources[k].afi
              /\ items[k].inner.prefix = Sources[k].prefix
              /\ Len(Sources[k].max_length) = 0
                    => items[k].inner.max_length = [tag |-> "ImplicitEqual", len |-> 0]
              /\ (Len(Sources[k].max_length) = 1
                    /\ Sources[k].max_length[1] = Len(Sources[k].prefix))
                    => items[k].inner.max_length = [tag |-> "ExplicitEqual", len |-> 0]
              /\ (Len(Sources[k].max_length) = 1
                    /\ Sources[k].max_length[1] > Len(Sources[k].prefix))
                    => items[k].inner.max_length =
                          [tag |-> "Explicit", len |-> Sources[k].max_length[1]]
        /\ (Len(items) < Len(Sources)
              /\ (input_type = "Roa" =>
                    /\ roa.content_type = "id-signedData"
                    /\ roa.econtent_type = "id-ct-routeOriginAuthz"))
              => LET src == Sources[Len(items) + 1]
                 IN  ~(/\ WellFormed(src)
                       /\ Len(src.max_length) = 1 => src.max_length[1] >= Len(src.prefix))

\* A ROA gave an Ipv6 record with a max length equal to its prefix length
\* and one with a greater max length.
C6_Witness ==
    /\ pc = "done"
    /\ input_type = "Roa"
    /\ Len(items) = 2
    /\ items[1].afi = "Ipv6"
    /\ items[1].inner.max_length.tag = "ExplicitEqual"
    /\ items[2].inner.max_length.tag = "Explicit"

\* C7: an input element with a max length less than its prefix length gives
\* no record: the decode fails there at the latest, with the range error when
\* it is the first element to fail in a well-formed place; and every record
\* the decoders give or the collection holds with Explicit(L) has L greater
\* than its prefix length.
C7_InvalidRange ==
    /\ \A k \in 1..Len(items) :
          items[k].inner.max_length.tag = "Explicit"
              => items[k].inner.max_length.len > Len(items[k].inner.prefix)
    /\ \A m \in 1..Len(ranges) :
          ranges[m].key.inner.max_length.tag = "Explicit"
              => ranges[m].key.inner.max_length.len > Len(ranges[m].key.inner.prefix)
    /\ (HasRead /\ (input_type = "Roa" => roa.der_ok /\ roa.econtent = "present")) =>
          \A k \in 1..Len(Sources) :
              (/\ Len(Sources[k].max_length) = 1
               /\ Sources[k].max_length[1] >= 0
               /\ Sources[k].max_length[1] < Len(Sources[k].prefix))
                  => /\ pc = "failed"
                     /\ Len(items) < k
                     /\ ranges = << >>
                     /\ stdout = << >>
                     /\ (/\ k = Len(items) + 1
                         /\ Sources[k].afi \in {"Ipv4", "Ipv6"}
                         /\ input_type = "Roa" =>
                               /\ roa.content_type = "id-signedData"
                               /\ roa.econtent_type = "id-ct-routeOriginAuthz")
                            => ret = "max_length less than prefix length"

\* A record was decoded and the next element's max length was less than its
\* prefix length.
C7_Witness ==
    /\ pc = "failed"
    /\ ret = "max_length less than prefix length"
    /\ Len(items) = 1
    /\ Len(Sources) = 2
    /\ Sources[2].max_length = <<0>>
    /\ Len(Sources[2].prefix) = 1


\* The three records have been compared.
Compared == pc = "cmp_done"

Reverse(ord) ==
    IF ord = "Less" THEN "Greater" ELSE IF ord = "Greater" THEN "Less" ELSE "Equal"

\* C8: cmp gives one of Less, Equal, Greater, cmp(b, a) is the reverse of
\* cmp(a, b), a < b and b < c imply a < c, and a == b holds exactly when
\* cmp(a, b) is Equal.
C8_TotalOrder ==
    Compared =>
        /\ cmp_out.ab \in {"Less", "Equal", "Greater"}
        /\ cmp_out.ba = Reverse(cmp_out.ab)
        /\ (cmp_out.ab = "Less" /\ cmp_out.bc = "Less") => cmp_out.ac = "Less"
        /\ cmp_out.eq_ab <=> cmp_out.ab = "Equal"

\* a < b < c across both families.
C8_Witness ==
    /\ Compared
    /\ cmp_out.ab = "Less"
    /\ cmp_out.bc = "Less"
    /\ cmp_in[1].afi = "Ipv4"
    /\ cmp_in[2].afi = "Ipv4"
    /\ cmp_in[3].afi = "Ipv6"

\* The network address of a prefix as a number of MaxBits + 1 bits.
RECURSIVE AddressNumber(_, _)
AddressNumber(prefix, k) ==
    IF k > Len(prefix) THEN 0
    ELSE prefix[k] * (2 ^ (MaxBits + 1 - k)) + AddressNumber(prefix, k + 1)

\* The rank of a max length qualifier: the two equal forms first, then the
\* explicit ones by their length.
QualifierRank(q) == IF q.tag = "Explicit" THEN q.len + 1 ELSE 0

\* C9: an Ipv4 record is less than an Ipv6 record whatever they hold; within
\* a family the network address decides, then the prefix length, the shorter
\* first, then the qualifier.
C9_Lexicographic ==
    Compared =>
        LET a == cmp_in[1]
            b == cmp_in[2]
            na == AddressNumber(a.inner.prefix, 1)
            nb == AddressNumber(b.inner.prefix, 1)
            la == Len(a.inner.prefix)
            lb == Len(b.inner.prefix)
            qa == QualifierRank(a.inner.max_length)
            qb == QualifierRank(b.inner.max_length)
        IN  /\ (a.afi = "Ipv4" /\ b.afi = "Ipv6") => cmp_out.ab = "Less"
            /\ (a.afi = "Ipv6" /\ b.afi = "Ipv4") => cmp_out.ab = "Greater"
            /\ a.afi = b.afi =>
                  /\ na < nb => cmp_out.ab = "Less"
                  /\ na > nb => cmp_out.ab = "Greater"
                  /\ (na = nb /\ la < lb) => cmp_out.ab = "Less"
                  /\ (na = nb /\ la > lb) => cmp_out.ab = "Greater"
                  /\ (na = nb /\ la = lb /\ qa < qb) => cmp_out.ab = "Less"
                  /\ (na = nb /\ la = lb /\ qa > qb) => cmp_out.ab = "Greater"
                  /\ (na = nb /\ la = lb /\ qa = qb) => cmp_out.ab = "Equal"

\* The lower address is the longer prefix and has the greater qualifier.
C9_Witness ==
    /\ Compared
    /\ cmp_in[1].afi = cmp_in[2].afi
    /\ AddressNumber(cmp_in[1].inner.prefix, 1) < AddressNumber(cmp_in[2].inner.prefix, 1)
    /\ Len(cmp_in[1].inner.prefix) > Len(cmp_in[2].inner.prefix)
    /\ cmp_in[2].inner.max_length.tag = "Explicit"
    /\ cmp_out.ab = "Less"

\* C10: ImplicitEqual and ExplicitEqual compare Equal to each other and to
\* themselves, either is Less than every Explicit(L), two Explicit compare as
\* their lengths; so two records of one prefix are == exactly when both
\* qualifiers are one of the equal forms or both are Explicit with one L.
C10_Qualifier ==
    Compared =>
        LET p == cmp_in[1].inner.max_length
            q == cmp_in[2].inner.max_length
            pe == p.tag \in {"ImplicitEqual", "ExplicitEqual"}
            qe == q.tag \in {"ImplicitEqual", "ExplicitEqual"}
        IN  /\ (pe /\ qe) => cmp_out.ml_ab = "Equal"
            /\ (pe /\ ~qe) => cmp_out.ml_ab = "Less"
            /\ (~pe /\ qe) => cmp_out.ml_ab = "Greater"
            /\ (~pe /\ ~qe /\ p.len < q.len) => cmp_out.ml_ab = "Less"
            /\ (~pe /\ ~qe /\ p.len = q.len) => cmp_out.ml_ab = "Equal"
            /\ (~pe /\ ~qe /\ p.len > q.len) => cmp_out.ml_ab = "Greater"
            /\ (cmp_in[1].afi = cmp_in[2].afi
                  /\ cmp_in[1].inner.prefix = cmp_in[2].inner.prefix)
                  => (cmp_out.eq_ab <=>
                        \/ pe /\ qe
                        \/ ~pe /\ ~qe /\ p.len = q.len)

\* One prefix, without a max length and with one equal to its length.
C10_Witness ==
    /\ Compared
    /\ cmp_in[1].afi = cmp_in[2].afi
    /\ cmp_in[1].inner.prefix = cmp_in[2].inner.prefix
    /\ cmp_in[1].inner.max_length.tag = "ImplicitEqual"
    /\ cmp_in[2].inner.max_length.tag = "ExplicitEqual"
    /\ cmp_out.eq_ab
    /\ cmp_out.ml_ab = "Equal"

\* C11: a record renders as its prefix alone when its qualifier is
\* ImplicitEqual or ExplicitEqual and with its max length when it is
\* Explicit; parsing that text succeeds and gives a record that compares
\* Equal to the one rendered, and never one with qualifier ExplicitEqual.
C11_RenderParse ==
    Compared =>
        LET r == cmp_in[1]
        IN  /\ cmp_out.text.prefix = r.inner.prefix
            /\ r.inner.max_length.tag \in {"ImplicitEqual", "ExplicitEqual"}
                  => cmp_out.text.max_length = << >>
            /\ r.inner.max_length.tag = "Explicit"
                  => cmp_out.text.max_length = <<r.inner.max_length.len>>
            /\ cmp_out.parsed.ok
            /\ RoaCmp(cmp_out.parsed.val, r) = "Equal"
            /\ RoaCmp(r, cmp_out.parsed.val) = "Equal"
            /\ cmp_out.parsed.val.inner.max_length.tag # "ExplicitEqual"

\* An Ipv6 record with an explicit max length equal to its prefix length
\* came back with no max length given: Ord-equal, not identical.
C11_Witness ==
    /\ Compared
    /\ cmp_in[1].afi = "Ipv6"
    /\ Len(cmp_in[1].inner.prefix) = 1
    /\ cmp_in[1].inner.max_length.tag = "ExplicitEqual"
    /\ cmp_out.parsed.ok
    /\ cmp_out.parsed.val.inner.max_length.tag = "ImplicitEqual"
    /\ cmp_out.parsed.val # cmp_in[1]

\* The input element gives no record: no family, a max length that is no
\* prefix length of the family, or one less than the prefix length.
Undecodable(src) ==
    \/ src.afi \notin {"Ipv4", "Ipv6"}
    \/ Len(src.prefix) > (IF src.afi = "Ipv4" THEN 32 ELSE 128)
    \/ /\ Len(src.max_length) = 1
       /\ \/ src.max_length[1] < 0
          \/ src.max_length[1] > (IF src.afi = "Ipv4" THEN 32 ELSE 128)
          \/ src.max_length[1] < Len(src.prefix)

\* The input does not decode: a line or an entry gives no record, or the
\* binary structure around the entries is not a ROA.
InputFails ==
    \/ \E k \in 1..Len(Sources) : Undecodable(Sources[k])
    \/ /\ input_type = "Roa"
       /\ \/ ~roa.der_ok
          \/ roa.content_type # "id-signedData"
          \/ ~roa.signed_data_ok
          \/ roa.econtent_type # "id-ct-routeOriginAuthz"
          \/ roa.econtent # "present"

\* C12: when a line of a text input, the last one included, or any part of
\* a binary input does not decode, main returns the error of the read: no
\* collection is built, the loop never runs, nothing is printed, the
\* records decoded before the failure included, and the run does not go on
\* without the failing element.
C12_FailureAborts ==
    /\ (HasRead /\ InputFails) => pc = "failed"
    /\ pc = "failed" =>
          /\ ret # "Ok"
          /\ ranges = << >>
          /\ i = 0
          /\ stdout = << >>
          /\ errs = 0

\* The first line of a text input decoded and its last line did not.
C12_Witness ==
    /\ pc = "failed"
    /\ input_type = "Text"
    /\ Len(lines) = 2
    /\ Len(items) = 1
    /\ ~Undecodable(lines[1])
    /\ Undecodable(lines[2])
    /\ ret = "invalid digit found in string"
    /\ stdout = << >>

\* The number of times a line is in the log.
Count(seq, x) == Cardinality({k \in 1..Len(seq) : seq[k] = x})

\* The gates of the binary decode, as the input passes them.
Gate1 == roa.content_type = "id-signedData"
Gate2 == roa.signed_data_ok
Gate3 == roa.econtent_type = "id-ct-routeOriginAuthz"
Gate4 == roa.econtent = "present"
BadTags ==
    {b \in 1..Len(roa.ip_addr_blocks) :
        roa.ip_addr_blocks[b].address_family \notin {<<0, 1>>, <<0, 2>>}}
BadEntries == {k \in 1..Len(Sources) : Undecodable(Sources[k])}
Gate5 == BadTags = {} /\ BadEntries = {}

\* The blocks with an entry that gives no record.
FailingBlocks ==
    {b \in 1..Len(roa.ip_addr_blocks) :
        \E k \in 1..Len(Flatten(<<roa.ip_addr_blocks[b]>>)) :
            Undecodable(Flatten(<<roa.ip_addr_blocks[b]>>)[k])}

\* The decode reports the first gate that fails and logs nothing of a later
\* one; of the blocks it reads those up to the first with an entry that
\* gives no record, of the entries those before that one.
GateOrder ==
    (HasRead /\ input_type = "Roa" /\ roa.der_ok) =>
        /\ ~Gate1 =>
              /\ ret = "invalid OID for SignedData content"
              /\ Count(log, "trying to decode content as SignedData") = 0
        /\ (Gate1 /\ ~Gate2) =>
              /\ ret = "failed to decode CMS content"
              /\ Count(log, "trying to decode econtent as RouteOriginAttestation") = 0
        /\ (Gate1 /\ Gate2 /\ ~Gate3) =>
              /\ ret = "invalid OID for ROA eContent"
              /\ Count(log, "trying to decode econtent as RouteOriginAttestation") = 0
        /\ (Gate1 /\ Gate2 /\ Gate3 /\ ~Gate4) =>
              /\ ret \in {"failed to extract eContent bytes", "failed to decode eContent"}
              /\ Count(log, "trying to get address-family") = 0
        /\ ~(Gate1 /\ Gate2 /\ Gate3 /\ Gate4) =>
              pc = "failed" /\ items = << >>
        /\ (Gate1 /\ Gate2 /\ Gate3 /\ Gate4) =>
              /\ Count(log, "trying to get address-family") =
                    (IF FailingBlocks = {} THEN Len(roa.ip_addr_blocks)
                     ELSE Min(FailingBlocks))
              /\ Len(items) =
                    (IF BadEntries = {} THEN Len(Sources) ELSE Min(BadEntries) - 1)
              /\ pc = "failed" <=> BadEntries # {}

\* C13: the binary decode passes its gates in order and stops at the first
\* that fails: outer content type, signed-data payload, encapsulated
\* content type, encapsulated content, then block by block the family tag
\* (00 01 or 00 02) and the entries; it succeeds exactly when every gate
\* passes, a block with any other tag makes it fail, and nothing of a later
\* gate is evaluated once one has failed.
C13_GatesInOrder ==
    /\ GateOrder
    /\ (HasRead /\ input_type = "Roa" /\ roa.der_ok) =>
          /\ pc # "failed" <=> (Gate1 /\ Gate2 /\ Gate3 /\ Gate4 /\ Gate5)
          /\ (Gate1 /\ Gate2 /\ Gate3 /\ Gate4 /\ BadTags # {}) => pc = "failed"

\* A block tagged 00 03 that holds no entry went through the decode beside
\* an Ipv4 block: the run printed that block's record and returned Ok.
C13_Witness ==
    /\ pc = "done"
    /\ input_type = "Roa"
    /\ Len(roa.ip_addr_blocks) = 2
    /\ roa.ip_addr_blocks[1].address_family = <<0, 3>>
    /\ roa.ip_addr_blocks[1].addresses = << >>
    /\ roa.ip_addr_blocks[2].address_family = <<0, 1>>
    /\ Len(stdout) = 1
    /\ ret = "Ok"
    /\ Count(log, "trying to get address-family") = 2

\* The decoded records as they came: each less than the next; none greater
\* than the next; some pair of neighbours Ord-equal.
StrictlyAscending ==
    \A k \in 1..(Len(items) - 1) : RoaCmp(items[k], items[k + 1]) = "Less"
Sorted ==
    \A k \in 1..(Len(items) - 1) : RoaCmp(items[k], items[k + 1]) # "Greater"
EqualNeighbours ==
    \E k \in 1..(Len(items) - 1) : RoaCmp(items[k], items[k + 1]) = "Equal"

\* C14: after a successful decode no canonical position has a stored index
\* other than itself exactly when the decoded records came strictly
\* ascending; records that came sorted with two Ord-equal among them have
\* such a position; and a run in which no redundant max length overwrote the
\* message returns "input was mis-ordered" exactly when they did not come
\* strictly ascending.
C14_MisOrderIffNotAscending ==
    /\ Decoded =>
          /\ MisOrdered = {} <=> StrictlyAscending
          /\ (Sorted /\ EqualNeighbours) => MisOrdered # {}
    /\ (pc = "done" /\ Redundant = {}) =>
          (ret = "input was mis-ordered" <=> ~StrictlyAscending)

\* The same record with a max length greater than its prefix length came
\* twice and nothing else: sorted, and flagged as mis-ordered.
C14_Witness ==
    /\ pc = "done"
    /\ Len(items) = 2
    /\ items[1] = items[2]
    /\ items[1].inner.max_length.tag = "Explicit"
    /\ Sorted
    /\ MisOrdered = {1}
    /\ Redundant = {}
    /\ ret = "input was mis-ordered"

\* C15: when the listing a run printed is given back as text input, every
\* line of it decodes, the run prints the same listing, no canonical
\* position is mis-ordered, no record has a redundant max length and main
\* returns Ok, whatever the first run returned.
C15_Idempotent ==
    IsSome(first) =>
        /\ lines = first[1].stdout
        /\ pc # "failed"
        /\ Decoded => Len(items) = Len(lines) /\ MisOrdered = {} /\ Redundant = {}
        /\ pc = "done" =>
              /\ stdout = first[1].stdout
              /\ errs = 0
              /\ ret = "Ok"

\* A run that was flagged as mis-ordered printed two lines, one with a max
\* length; the run on its output printed them again and returned Ok.
C15_Witness ==
    /\ IsSome(first)
    /\ pc = "done"
    /\ first[1].ret = "input was mis-ordered"
    /\ Len(stdout) = 2
    /\ \E k \in 1..2 : IsSome(stdout[k].max_length)
    /\ stdout = first[1].stdout
    /\ ret = "Ok"

====
